---- MODULE Spec2Model ----
(***************************************************************************)
(* The resource loading sequencer of the univerContainer component         *)
(* (force-app/main/default/lwc/univerContainer/univerContainer.js).        *)
(*                                                                         *)
(* One step of the model is one turn of the event loop's work on the       *)
(* component: the start of loadUniver, the settlement of one loadScript    *)
(* promise (with the promise reactions it triggers up to the next await),  *)
(* one firing of a checkState timer, the continuation of one resource task *)
(* after its dependency waits, the continuation of loadUniver after all    *)
(* tasks, and the settlement of initializeUniver.                          *)
(***************************************************************************)
EXTENDS Integers, Sequences, FiniteSets, TLC

\* ------------------------------------------------------------------ bounds
\* How many times the host may call connectedCallback (SpecRerun only).
MaxRuns == 2

\* How much pending work an earlier invocation may have left when the host
\* attaches the component again (SpecOverlap only).
MaxPending == 2

\* ------------------------------------------------------- static configuration
NOT_STARTED == "not_started"
LOADING == "loading"
LOADED == "loaded"
ERROR == "error"

LOAD_STATES == {NOT_STARTED, LOADING, LOADED, ERROR}

\* Variant: engineRender is made to wait for docs, which waits for it.
loadingSequenceCyclic ==
  << [name |-> "core",          depends |-> << >>],
     [name |-> "engineRender",  depends |-> <<"core", "docs">>],
     [name |-> "engineFormula", depends |-> <<"core">>],
     [name |-> "sheets",        depends |-> <<"core", "engineRender", "engineFormula">>],
     [name |-> "docs",          depends |-> <<"core", "engineRender">>],
     [name |-> "sheetsUi",      depends |-> <<"sheets">>],
     [name |-> "docsUi",        depends |-> <<"docs">>],
     [name |-> "sheetsFacade",  depends |-> <<"sheets", "sheetsUi">>] >>

\* The loading sequence with its dependency lists (core has no depends).
loadingSequence ==
  << [name |-> "core",          depends |-> << >>],
     [name |-> "engineRender",  depends |-> <<"core">>],
     [name |-> "engineFormula", depends |-> <<"core">>],
     [name |-> "sheets",        depends |-> <<"core", "engineRender", "engineFormula">>],
     [name |-> "docs",          depends |-> <<"core", "engineRender">>],
     [name |-> "sheetsUi",      depends |-> <<"sheets">>],
     [name |-> "docsUi",        depends |-> <<"docs">>],
     [name |-> "sheetsFacade",  depends |-> <<"sheets", "sheetsUi">>] >>

\* The keys of the loadingStates object.
StateKeys ==
  {"core", "sheets", "docs", "engineRender", "engineFormula",
   "sheetsUi", "docsUi", "sheetsFacade"}

Range(s) == {s[i] : i \in DOMAIN s}

\* loadingSequence[0].name
First == loadingSequence[1].name

\* loadingSequence.slice(1), as positions of the sequence
remainingResources == 2..Len(loadingSequence)

Names == {loadingSequence[i].name : i \in DOMAIN loadingSequence}

Remaining == {loadingSequence[i].name : i \in remainingResources}

IndexOf(n) == CHOOSE i \in DOMAIN loadingSequence : loadingSequence[i].name = n

\* resource.depends of every resource, by name
DependsOf == [n \in Names |-> Range(loadingSequence[IndexOf(n)].depends)]

\* resource.depends of the resource named n
Depends(n) == DependsOf[n]

\* One waitForResourceLoad promise per (resource, dependency) pair.
Waits == {<<r, d>> : r \in Remaining, d \in Names} \cap
         {w \in Names \X Names : w[2] \in Depends(w[1])}

Runs == 1..MaxRuns

\* The failures loadUniver can catch: what error.message names.
NoError == [kind |-> "none", resource |-> "none"]
LoadError(n) == [kind |-> "load", resource |-> n]
DependencyError(n) == [kind |-> "dependency", resource |-> n]
InitError == [kind |-> "init", resource |-> "none"]

\* The univerlog events told apart: the level, what the message is about (a
\* resource, or the component as a whole) and whether error details are sent.
LogSubjects == Names \cup {"univer"}
LogKeys == {"info", "success", "warning", "error"} \X LogSubjects \X BOOLEAN

\* ------------------------------------------------------------------- state
VARIABLES
  loadingStates,  \* this.loadingStates: resource name -> load state
  errors,         \* this.errors: sequence of {resource, error}
  run,            \* number of loadUniver invocations so far
  runPc,          \* per invocation: where loadUniver is
  task,           \* per invocation and remaining resource: the map callback
  wait,           \* per invocation and (resource, dep): the wait promise
  cause,          \* per invocation: the error caught by loadUniver
  toasts,         \* per invocation: number of showErrorToast calls
  initCalls,      \* per invocation: number of initializeUniver calls
  log             \* the univerlog events dispatched: how many of each kind

vars == <<loadingStates, errors, run, runPc, task, wait, cause, toasts, initCalls, log>>

\* The values the state takes.
TypeOK ==
  /\ loadingStates \in [StateKeys -> LOAD_STATES]
  /\ errors \in Seq([resource : Names, error : {"script"}])
  /\ run \in 0..MaxRuns
  /\ runPc \in [Runs -> {"idle", "core", "parallel", "init", "completed", "failed"}]
  /\ task \in [Runs -> [Remaining -> {"none", "waiting", "loading", "fulfilled", "rejected"}]]
  /\ wait \in [Runs -> [Waits -> {"none", "polling", "resolved", "rejected"}]]
  /\ cause \in [Runs -> [kind : {"none", "load", "dependency", "init"},
                         resource : Names \cup {"none"}]]
  /\ toasts \in [Runs -> 0..2]
  /\ initCalls \in [Runs -> 0..1]
  /\ log \in [LogKeys -> Nat]

\* ----------------------------------------------------------- pure helpers
\* Variant: logMessage dispatches no event for the error level.
logMessageNoError(lg, level, subject, withError) ==
  IF level = "error" THEN lg
  ELSE [lg EXCEPT ![<<level, subject, withError>>] = @ + 1]

\* logMessage(level, message, error): one more univerlog event of that kind.
logMessage(lg, level, subject, withError) ==
  [lg EXCEPT ![<<level, subject, withError>>] = @ + 1]

\* Variant: the reset writes LOADED, as the overwrite after the loads does.
AllKeysToLoaded(ls, s) == [k \in DOMAIN ls |-> LOADED]

\* Object.fromEntries(Object.keys(ls).map(key => [key, s]))
AllKeysTo(ls, s) == [k \in DOMAIN ls |-> s]

\* Variant: the spread copies a stale map (the one the reset left) instead of
\* the current this.loadingStates.
SetStateFromStale(ls, name, s) ==
  [k \in DOMAIN ls \cup {name} |-> IF k = name THEN s ELSE NOT_STARTED]

\* { ...ls, [name]: s }
SetState(ls, name, s) == [k \in DOMAIN ls \cup {name} |-> IF k = name THEN s ELSE ls[k]]

\* Variant: checkState resolves as soon as the dependency has started loading.
CheckOutcomeLoadingToo(ls, d) ==
  IF ls[d] \in {LOADED, LOADING} THEN "resolved"
  ELSE IF ls[d] = ERROR THEN "rejected"
  ELSE "polling"

\* Variant: checkState compares with a value no state ever has, so it never
\* sees a dependency loaded.
CheckOutcomeNeverLoaded(ls, d) ==
  IF ls[d] = "LOADED" THEN "resolved"
  ELSE IF ls[d] = ERROR THEN "rejected"
  ELSE "polling"

\* Variant: checkState resolves on any terminal state of the dependency.
CheckOutcomeErrorResolves(ls, d) ==
  IF ls[d] \in {LOADED, ERROR} THEN "resolved"
  ELSE "polling"

\* The outcome of one checkState evaluation for dependency d.
CheckOutcome(ls, d) ==
  IF ls[d] = LOADED THEN "resolved"
  ELSE IF ls[d] = ERROR THEN "rejected"
  ELSE "polling"

\* The loadingStatus getter.
loadingStatus ==
  LET total == Cardinality(DOMAIN loadingStates)
      loaded == Cardinality({k \in DOMAIN loadingStates : loadingStates[k] = LOADED})
  IN [isComplete |-> loaded = total /\ total > 0,
      progress |-> IF total > 0 THEN (200 * loaded + total) \div (2 * total) ELSE 0,
      hasErrors |-> Len(errors) > 0]

\* ------------------------------------------------------------- event loop
\* Variant: the resources are loaded one at a time: a task goes on only
\* while no other resource is loading.
ReadyToLoadSerial(g, r) ==
  /\ task[g][r] = "waiting"
  /\ \A d \in Depends(r) : wait[g][<<r, d>>] = "resolved"
  /\ \A k \in StateKeys : loadingStates[k] # LOADING

\* Variant: a task whose load failed goes on to load again (a retry).
ReadyToLoadAgain(g, r) ==
  /\ task[g][r] \in {"waiting", "rejected"}
  /\ \A d \in Depends(r) : wait[g][<<r, d>>] = "resolved"

\* The inner Promise.all of task r has fulfilled and the task has not gone on.
ReadyToLoad(g, r) ==
  /\ task[g][r] = "waiting"
  /\ \A d \in Depends(r) : wait[g][<<r, d>>] = "resolved"

\* Variant: loadUniver goes on as soon as one task has fulfilled (Promise.any
\* in place of the outer Promise.all).
AnyFulfilled(g) ==
  /\ runPc[g] = "parallel"
  /\ \E r \in Remaining : task[g][r] = "fulfilled"

\* The outer Promise.all has fulfilled and loadUniver has not gone on.
AllFulfilled(g) ==
  /\ runPc[g] = "parallel"
  /\ \A r \in Remaining : task[g][r] = "fulfilled"

\* Promise continuations are due: they run before the event loop takes its
\* next task (a script load event, a timer, an animation frame).
MicrotasksPending ==
  \E g \in Runs : AllFulfilled(g) \/ \E r \in Remaining : ReadyToLoad(g, r)

\* ------------------------------------------------------------------- Init
\* The component after construction (field initialisers, lines 43-71).
Init ==
  /\ loadingStates = [k \in StateKeys |-> NOT_STARTED]
  /\ errors = << >>
  /\ run = 0
  /\ runPc = [g \in Runs |-> "idle"]
  /\ task = [g \in Runs |-> [r \in Remaining |-> "none"]]
  /\ wait = [g \in Runs |-> [w \in Waits |-> "none"]]
  /\ cause = [g \in Runs |-> NoError]
  /\ toasts = [g \in Runs |-> 0]
  /\ initCalls = [g \in Runs |-> 0]
  /\ log = [k \in LogKeys |-> 0]

\* --------------------------------------------------------------- loadUniver
\* The catch branch of loadUniver: log the error and show the toast.
\* lg is the log as the handler that threw has left it.
CatchBranch(g, err, lg) ==
  /\ runPc' = [runPc EXCEPT ![g] = "failed"]
  /\ cause' = [cause EXCEPT ![g] = err]
  /\ toasts' = [toasts EXCEPT ![g] = @ + 1]
  /\ log' = logMessage(lg, "error", "univer", TRUE)

\* Variant: every rejected task reaches the catch branch's report, so the last
\* failure is the one reported.
TaskRejectsLast(g, err, lg) ==
  IF runPc[g] \in {"parallel", "failed"}
  THEN /\ runPc' = [runPc EXCEPT ![g] = "failed"]
       /\ cause' = [cause EXCEPT ![g] = err]
       /\ toasts' = [toasts EXCEPT ![g] = IF runPc[g] = "failed" THEN @ ELSE @ + 1]
       /\ log' = IF runPc[g] = "failed" THEN lg
                 ELSE logMessage(lg, "error", "univer", TRUE)
  ELSE /\ log' = lg
       /\ UNCHANGED <<runPc, cause, toasts>>

\* A rejected task promise reaches the outer Promise.all: the first rejection
\* rejects it and loadUniver's await throws; later ones are ignored.
TaskRejects(g, err, lg) ==
  IF runPc[g] = "parallel"
  THEN CatchBranch(g, err, lg)
  ELSE /\ log' = lg
       /\ UNCHANGED <<runPc, cause, toasts>>

\* Variant: the reset forgets to clear this.errors.
loadUniverKeepErrors ==
  /\ ~MicrotasksPending
  /\ run' = run + 1
  /\ loadingStates' = SetState(AllKeysTo(loadingStates, NOT_STARTED), First, LOADING)
  /\ runPc' = [runPc EXCEPT ![run + 1] = "core"]
  /\ log' = logMessage(logMessage(log, "info", "univer", FALSE), "info", First, FALSE)
  /\ UNCHANGED <<errors, task, wait, cause, toasts, initCalls>>

\* connectedCallback's log line, then loadUniver up to its first await: the
\* reset, then loadResource(core) up to its await of loadScript.
loadUniver ==
  /\ ~MicrotasksPending
  /\ run' = run + 1
  /\ errors' = << >>
  /\ loadingStates' = SetState(AllKeysTo(loadingStates, NOT_STARTED), First, LOADING)
  /\ runPc' = [runPc EXCEPT ![run + 1] = "core"]
  /\ log' = logMessage(logMessage(log, "info", "univer", FALSE), "info", First, FALSE)
  /\ UNCHANGED <<task, wait, cause, toasts, initCalls>>

\* connectedCallback: the host attaches the component, loadUniver is queued.
connectedCallback ==
  /\ run = 0
  /\ loadUniver

\* The first rejection among the tasks just dispatched, in dispatch order, or
\* NoError: a wait whose first checkState already sees ERROR.
FirstRejected(ls) ==
  LET bad == {i \in remainingResources :
                \E d \in Depends(loadingSequence[i].name) : ls[d] = ERROR}
  IN IF bad = {} THEN NoError
     ELSE LET i == CHOOSE j \in bad : \A k \in bad : j <= k
              deps == loadingSequence[i].depends
              p == CHOOSE q \in DOMAIN deps :
                     /\ ls[deps[q]] = ERROR
                     /\ \A q2 \in DOMAIN deps : ls[deps[q2]] = ERROR => q <= q2
          IN DependencyError(deps[p])

\* loadScript of core resolves: loadResource marks it loaded and returns;
\* loadUniver maps the remaining resources to tasks, each of which calls
\* waitForResourceLoad for its dependencies (checkState runs once at once).
coreLoaded(g) ==
  /\ runPc[g] = "core"
  /\ ~MicrotasksPending
  /\ loadingStates' = SetState(loadingStates, First, LOADED)
  /\ wait' = [wait EXCEPT ![g] =
                [w \in Waits |-> CheckOutcome(loadingStates', w[2])]]
  /\ task' = [task EXCEPT ![g] =
                [r \in Remaining |->
                   IF \E d \in Depends(r) : wait'[g][<<r, d>>] = "rejected"
                   THEN "rejected" ELSE "waiting"]]
  /\ IF FirstRejected(loadingStates') = NoError
     THEN /\ runPc' = [runPc EXCEPT ![g] = "parallel"]
          /\ log' = logMessage(log, "success", First, FALSE)
          /\ UNCHANGED <<cause, toasts>>
     ELSE CatchBranch(g, FirstRejected(loadingStates'),
                      logMessage(log, "success", First, FALSE))
  /\ UNCHANGED <<errors, run, initCalls>>

\* Variant: loadResource does not rethrow, so loadUniver goes on to dispatch
\* the remaining resources after core failed.
coreFailedSwallowed(g) ==
  /\ runPc[g] = "core"
  /\ ~MicrotasksPending
  /\ loadingStates' = SetState(loadingStates, First, ERROR)
  /\ errors' = Append(errors, [resource |-> First, error |-> "script"])
  /\ wait' = [wait EXCEPT ![g] =
                [w \in Waits |-> CheckOutcome(loadingStates', w[2])]]
  /\ task' = [task EXCEPT ![g] =
                [r \in Remaining |->
                   IF \E d \in Depends(r) : wait'[g][<<r, d>>] = "rejected"
                   THEN "rejected" ELSE "waiting"]]
  /\ CatchBranch(g, FirstRejected(loadingStates'),
                 logMessage(log, "error", First, TRUE))
  /\ UNCHANGED <<run, initCalls>>

\* loadScript of core rejects: loadResource records the error and throws, and
\* loadUniver catches it.
coreFailed(g) ==
  /\ runPc[g] = "core"
  /\ ~MicrotasksPending
  /\ loadingStates' = SetState(loadingStates, First, ERROR)
  /\ errors' = Append(errors, [resource |-> First, error |-> "script"])
  /\ CatchBranch(g, LoadError(First), logMessage(log, "error", First, TRUE))
  /\ UNCHANGED <<run, task, wait, initCalls>>

\* ------------------------------------------------------ waitForResourceLoad
\* One firing of checkState for task r's wait on dependency d.
checkState(g, r, d) ==
  /\ wait[g][<<r, d>>] = "polling"
  /\ ~MicrotasksPending
  /\ LET o == CheckOutcome(loadingStates, d) IN
       /\ wait' = [wait EXCEPT ![g][<<r, d>>] = o]
       /\ IF o = "rejected" /\ task[g][r] = "waiting"
          THEN /\ task' = [task EXCEPT ![g][r] = "rejected"]
               /\ TaskRejects(g, DependencyError(d), log)
          ELSE UNCHANGED <<task, runPc, cause, toasts, log>>
  /\ UNCHANGED <<loadingStates, errors, run, initCalls>>

\* ------------------------------------------------------------- loadResource
\* The task of r after its waits: loadResource(r) up to the loadScript await.
startLoad(g, r) ==
  /\ ReadyToLoad(g, r)
  /\ loadingStates' = SetState(loadingStates, r, LOADING)
  /\ task' = [task EXCEPT ![g][r] = "loading"]
  /\ log' = logMessage(log, "info", r, FALSE)
  /\ UNCHANGED <<errors, run, runPc, wait, cause, toasts, initCalls>>

\* loadScript of r resolves: loadResource marks r loaded, the task fulfils.
scriptLoaded(g, r) ==
  /\ task[g][r] = "loading"
  /\ ~MicrotasksPending
  /\ loadingStates' = SetState(loadingStates, r, LOADED)
  /\ task' = [task EXCEPT ![g][r] = "fulfilled"]
  /\ log' = logMessage(log, "success", r, FALSE)
  /\ UNCHANGED <<errors, run, runPc, wait, cause, toasts, initCalls>>

\* loadScript of r rejects: loadResource marks r in error, records it and
\* throws; the task rejects.
scriptFailed(g, r) ==
  /\ task[g][r] = "loading"
  /\ ~MicrotasksPending
  /\ loadingStates' = SetState(loadingStates, r, ERROR)
  /\ errors' = Append(errors, [resource |-> r, error |-> "script"])
  /\ task' = [task EXCEPT ![g][r] = "rejected"]
  /\ TaskRejects(g, LoadError(r), logMessage(log, "error", r, TRUE))
  /\ UNCHANGED <<run, wait, initCalls>>

\* ---------------------------------------------------------- initializeUniver
\* The outer Promise.all fulfils: loadUniver logs, overwrites every state with
\* LOADED and calls initializeUniver, which awaits the next animation frame.
allLoaded(g) ==
  /\ AllFulfilled(g)
  /\ loadingStates' = AllKeysTo(loadingStates, LOADED)
  /\ initCalls' = [initCalls EXCEPT ![g] = @ + 1]
  /\ runPc' = [runPc EXCEPT ![g] = "init"]
  /\ log' = logMessage(logMessage(log, "success", "univer", FALSE),
                       "info", "univer", FALSE)
  /\ UNCHANGED <<errors, run, task, wait, cause, toasts>>

\* initializeUniver returns normally.
initialized(g) ==
  /\ runPc[g] = "init"
  /\ ~MicrotasksPending
  /\ runPc' = [runPc EXCEPT ![g] = "completed"]
  /\ log' = logMessage(log, "success", "univer", FALSE)
  /\ UNCHANGED <<loadingStates, errors, run, task, wait, cause, toasts, initCalls>>

\* initializeUniver throws (no container, or the library throws): its own
\* catch shows a toast and rethrows, and loadUniver's catch shows another.
initializeFailed(g) ==
  /\ runPc[g] = "init"
  /\ ~MicrotasksPending
  /\ runPc' = [runPc EXCEPT ![g] = "failed"]
  /\ cause' = [cause EXCEPT ![g] = InitError]
  /\ toasts' = [toasts EXCEPT ![g] = @ + 2]
  /\ log' = logMessage(logMessage(log, "error", "univer", TRUE),
                       "error", "univer", TRUE)
  /\ UNCHANGED <<loadingStates, errors, run, task, wait, initCalls>>

\* ------------------------------------------------------------ specifications
Next ==
  \/ connectedCallback
  \/ \E g \in Runs : coreLoaded(g)
  \/ \E g \in Runs : coreFailed(g)
  \/ \E g \in Runs, w \in Waits : checkState(g, w[1], w[2])
  \/ \E g \in Runs, r \in Remaining : startLoad(g, r)
  \/ \E g \in Runs, r \in Remaining : scriptLoaded(g, r)
  \/ \E g \in Runs, r \in Remaining : scriptFailed(g, r)
  \/ \E g \in Runs : allLoaded(g)
  \/ \E g \in Runs : initialized(g)
  \/ \E g \in Runs : initializeFailed(g)

\* One attachment of the component: loadUniver runs once.
Spec == Init /\ [][Next]_vars

\* What the platform is taken to guarantee: every loadScript promise settles,
\* timers keep firing, due promise continuations run, and the animation frame
\* initializeUniver waits for arrives. Whether the host attaches the component
\* is left open.
Fairness ==
  \A g \in Runs :
    /\ WF_vars(coreLoaded(g) \/ coreFailed(g))
    /\ \A r \in Remaining : WF_vars(scriptLoaded(g, r) \/ scriptFailed(g, r))
    /\ \A r \in Remaining : WF_vars(startLoad(g, r))
    /\ \A w \in Waits : WF_vars(checkState(g, w[1], w[2]))
    /\ WF_vars(allLoaded(g))
    /\ WF_vars(initialized(g) \/ initializeFailed(g))

FairSpec == Spec /\ Fairness

\* Nothing of invocation g is pending: loadUniver has returned, no script load
\* is in flight, no wait is still polling and no task is about to load.
Settled(g) ==
  /\ runPc[g] \in {"completed", "failed"}
  /\ \A r \in Remaining : task[g][r] \in {"none", "fulfilled", "rejected"}
  /\ \A w \in Waits : wait[g][w] # "polling"

\* The host attaches the component again after the earlier invocation has
\* settled: connectedCallback runs again and loadUniver is invoked again.
reconnectedCallback ==
  /\ run >= 1
  /\ run < MaxRuns
  /\ Settled(run)
  /\ loadUniver

NextRerun == Next \/ reconnectedCallback

SpecRerun == Init /\ [][NextRerun]_vars

\* What invocation g has left pending: script loads in flight and waits that
\* are still polling.
PendingOf(g) ==
  Cardinality({r \in Remaining : task[g][r] = "loading"})
    + Cardinality({w \in Waits : wait[g][w] = "polling"})

\* The host attaches the component again after the earlier invocation failed
\* and while part of its work is still pending (at most MaxPending items):
\* loadUniver is invoked again, and the pending tasks and timers live on.
overlappingCallback ==
  /\ run >= 1
  /\ run < MaxRuns
  /\ runPc[run] = "failed"
  /\ PendingOf(run) >= 1
  /\ PendingOf(run) <= MaxPending
  /\ loadUniver

NextOverlap == Next \/ overlappingCallback

SpecOverlap == Init /\ [][NextOverlap]_vars

\* ------------------------------------------------------------------ claims
\* The resources that depend on x directly or through other resources.
RECURSIVE DependentsFrom(_, _)
DependentsFrom(found, n) ==
  LET more == {r \in Names : Depends(r) \cap found # {}} \ found
  IN IF more = {} \/ n = 0 THEN found ELSE DependentsFrom(found \cup more, n - 1)

Dependents(x) == DependentsFrom({x}, Len(loadingSequence)) \ {x}

\* C1: a resource other than the first changes to LOADING only in a state in
\* which every name of its depends list is LOADED.
C1_LoadingOnlyAfterDependencies ==
  [][\A r \in Remaining :
       (loadingStates[r] # LOADING /\ loadingStates'[r] = LOADING)
         => \A d \in Depends(r) : loadingStates[d] = LOADED]_vars

\* C1 witness: sheets, which has three dependencies, is loading.
C1_Witness ==
  /\ loadingStates["sheets"] = LOADING
  /\ \A d \in Depends("sheets") : loadingStates[d] = LOADED

\* C2: while the first resource is not started or loading, every other
\* resource is not started.
C2_CoreCompletesFirst ==
  loadingStates[First] \in {NOT_STARTED, LOADING}
    => \A r \in Names \ {First} : loadingStates[r] = NOT_STARTED

\* C2 witness: loadUniver has put core into LOADING.
C2_Witness ==
  /\ run = 1
  /\ runPc[1] = "core"
  /\ loadingStates[First] = LOADING

\* C3: once a resource is in ERROR, every resource depending on it directly or
\* transitively is NOT_STARTED, loadUniver has taken its catch branch and
\* initializeUniver has not been called.
C3_ErrorStopsDependents ==
  \A x \in Names :
    loadingStates[x] = ERROR
      => /\ \A r \in Dependents(x) : loadingStates[r] = NOT_STARTED
         /\ runPc[1] = "failed"
         /\ initCalls[1] = 0

\* C3 witness: engineRender failed, its dependent sheets has polled it and
\* been rejected, and engineFormula, which does not depend on it, has loaded.
C3_Witness ==
  /\ loadingStates["engineRender"] = ERROR
  /\ wait[1][<<"sheets", "engineRender">>] = "rejected"
  /\ loadingStates["engineFormula"] = LOADED

\* C4: initializeUniver is called at most once, only with every resource
\* LOADED and no error recorded; and a run without a failed script load that
\* can take no further step has every resource LOADED and has called it once.
C4_InitOnlyAfterAllLoaded ==
  /\ initCalls[1] <= 1
  /\ initCalls[1] = 1
       => /\ \A k \in StateKeys : loadingStates[k] = LOADED
          /\ errors = << >>
  /\ (run = 1 /\ errors = << >> /\ ~ENABLED <<Next>>_vars)
       => /\ \A k \in StateKeys : loadingStates[k] = LOADED
          /\ initCalls[1] = 1
          /\ runPc[1] \in {"completed", "failed"}

\* C4 witness: the run completed.
C4_Witness ==
  /\ runPc[1] = "completed"
  /\ initCalls[1] = 1
  /\ \A k \in StateKeys : loadingStates[k] = LOADED

\* C5: every failed run has shown the error toast exactly once, whichever
\* failure ended it (script load, dependency, or initializeUniver).
C5_ToastOncePerFailedRun ==
  runPc[1] = "failed" => toasts[1] = 1

\* C6: once loadUniver has taken its catch branch because of a resource, no
\* NOT_STARTED resource enters LOADING and no LOADING resource changes state.
C6_FailedRunIsAbandoned ==
  [][(runPc[1] = "failed" /\ cause[1].kind \in {"load", "dependency"})
       => \A k \in StateKeys :
            /\ loadingStates[k] = NOT_STARTED => loadingStates'[k] # LOADING
            /\ loadingStates[k] = LOADING => loadingStates'[k] = LOADING]_vars

\* C7: a resource state changes only from NOT_STARTED to LOADING or from
\* LOADING to LOADED or ERROR; LOADED and ERROR never change.
C7_StateProgression ==
  [][\A k \in StateKeys :
       loadingStates'[k] # loadingStates[k]
         => \/ loadingStates[k] = NOT_STARTED /\ loadingStates'[k] = LOADING
            \/ loadingStates[k] = LOADING /\ loadingStates'[k] \in {LOADED, ERROR}]_vars

\* C7 witness: resources in each of the four states at once.
C7_Witness ==
  \A s \in LOAD_STATES : \E k \in StateKeys : loadingStates[k] = s

\* C8: each invocation of loadUniver leaves the error list empty and every
\* resource NOT_STARTED except the first, which it has just put into LOADING.
C8_InvocationResets ==
  [][run' # run
       => /\ errors' = << >>
          /\ loadingStates'[First] = LOADING
          /\ \A k \in StateKeys \ {First} : loadingStates'[k] = NOT_STARTED]_vars

\* C8 witness: the second invocation has started after a run that failed on
\* a script load, and the states and error list are clean.
C8_Witness ==
  /\ run = 2
  /\ runPc[2] = "core"
  /\ runPc[1] = "failed"
  /\ cause[1].kind = "load"
  /\ errors = << >>
  /\ \A k \in StateKeys \ {First} : loadingStates[k] = NOT_STARTED

\* C9: the error caught by a run that failed because of a resource names the
\* first resource that entered ERROR, whatever failed afterwards.
C9_FirstFailureReported ==
  (runPc[1] = "failed" /\ cause[1].kind \in {"load", "dependency"})
    => /\ errors # << >>
       /\ cause[1].resource = errors[1].resource

\* C9 witness: two resources have failed in a failed run.
C9_Witness ==
  /\ runPc[1] = "failed"
  /\ Len(errors) >= 2
  /\ errors[1].resource # errors[2].resource

\* C10: with the first resource in ERROR, no other resource has left
\* NOT_STARTED, no dependency wait exists, initializeUniver was not called and
\* the run has failed with a cause naming the first resource.
C10_CoreFailureStopsEverything ==
  loadingStates[First] = ERROR
    => /\ \A k \in StateKeys \ {First} : loadingStates[k] = NOT_STARTED
       /\ \A w \in Waits : wait[1][w] = "none"
       /\ \A r \in Remaining : task[1][r] = "none"
       /\ initCalls[1] = 0
       /\ runPc[1] = "failed"
       /\ cause[1] = LoadError(First)

\* C10 witness: core failed to load.
C10_Witness ==
  /\ loadingStates[First] = ERROR
  /\ toasts[1] = 1

\* How many events of a level the log holds about subject k.
LogCount(lg, level, k) == lg[<<level, k, TRUE>>] + lg[<<level, k, FALSE>>]

\* C11: in every step, a resource gets one more info event exactly when it
\* enters LOADING, one more success event exactly when it enters LOADED and
\* one more error event, carrying the error, exactly when it enters ERROR.
C11_OneEventPerTransition ==
  [][\A k \in Names :
       LET enters(st) == loadingStates[k] # st /\ loadingStates'[k] = st
           more(level) == LogCount(log', level, k) - LogCount(log, level, k)
       IN /\ more("info") = IF enters(LOADING) THEN 1 ELSE 0
          /\ more("success") = IF enters(LOADED) THEN 1 ELSE 0
          /\ more("error") = IF enters(ERROR) THEN 1 ELSE 0
          /\ more("warning") = 0
          /\ log'[<<"error", k, FALSE>>] = 0]_vars

\* C11 witness: sheets has failed and docs has loaded, each with its events.
C11_Witness ==
  /\ loadingStates["sheets"] = ERROR
  /\ log[<<"info", "sheets", FALSE>>] = 1
  /\ log[<<"error", "sheets", TRUE>>] = 1
  /\ loadingStates["docs"] = LOADED
  /\ log[<<"success", "docs", FALSE>>] = 1

\* Neither resource depends on the other, directly or transitively.
Unrelated(a, b) == a # b /\ a \notin Dependents(b) /\ b \notin Dependents(a)

\* C12: a task all of whose dependency waits have resolved can start its load
\* whatever the state of the other resources, and of two loading resources
\* with no dependency relation either one can be the next to reach LOADED.
C12_SiblingsLoadConcurrently ==
  /\ \A r \in Remaining :
       (task[1][r] = "waiting" /\ \A d \in Depends(r) : wait[1][<<r, d>>] = "resolved")
         => ENABLED startLoad(1, r)
  /\ \A a, b \in Remaining :
       (Unrelated(a, b) /\ loadingStates[a] = LOADING /\ loadingStates[b] = LOADING
          /\ ~MicrotasksPending)
         => ENABLED scriptLoaded(1, a) /\ ENABLED scriptLoaded(1, b)

\* C12 witness: docs and engineFormula, unrelated, are loading at once.
C12_Witness ==
  /\ Unrelated("docs", "engineFormula")
  /\ loadingStates["docs"] = LOADING
  /\ loadingStates["engineFormula"] = LOADING

\* C13: a run that has started ends as completed or failed, and keeps that
\* outcome.
C13_RunEnds ==
  /\ (runPc[1] \in {"core", "parallel", "init"})
       ~> (runPc[1] \in {"completed", "failed"})
  /\ [][runPc[1] \in {"completed", "failed"} => runPc'[1] = runPc[1]]_vars

\* C13 witness: the run has completed after every dependency wait resolved.
C13_Witness ==
  /\ runPc[1] = "completed"
  /\ \A w \in Waits : wait[1][w] = "resolved"
  /\ toasts[1] = 0

\* C14: every step changes the state of at most one resource, and a step of
\* loadResource for a resource (its start, its success or its failure) changes
\* the state of that resource and of no other.
C14_WritesOwnEntryOnly ==
  [][LET changed == {k \in StateKeys : loadingStates'[k] # loadingStates[k]}
     IN /\ Cardinality(changed) <= 1
        /\ \A r \in Remaining :
             (\/ task[1][r] = "waiting" /\ task'[1][r] = "loading"
              \/ task[1][r] = "loading" /\ task'[1][r] # "loading")
               => changed = {r}
        /\ (runPc[1] = "core" /\ runPc'[1] # "core") => changed = {First}]_vars

\* C14 witness: three tasks have written their entries in turn while the
\* others were in flight, and every write is still there.
C14_Witness ==
  /\ loadingStates["engineRender"] = LOADED
  /\ loadingStates["engineFormula"] = LOADING
  /\ loadingStates["docs"] = LOADING
  /\ loadingStates[First] = LOADED

\* The names a resource waits for, directly or through its dependencies.
RECURSIVE RequiredFrom(_, _)
RequiredFrom(found, n) ==
  LET more == UNION {Range(loadingSequence[i].depends) :
                       i \in {j \in DOMAIN loadingSequence :
                                loadingSequence[j].name \in found}} \ found
  IN IF more = {} \/ n = 0 THEN found ELSE RequiredFrom(found \cup more, n - 1)

Required(i) ==
  RequiredFrom(Range(loadingSequence[i].depends), Len(loadingSequence))

\* C15: the names of loadingSequence are unique and are the keys of
\* loadingStates, the first element has no depends, every depends entry names
\* a resource of the sequence, no resource requires itself, and a run without
\* a failed load that can take no further step has resolved every wait.
C15_ConfigurationIsWellFormed ==
  /\ \A i, j \in DOMAIN loadingSequence :
       loadingSequence[i].name = loadingSequence[j].name => i = j
  /\ Names = StateKeys
  /\ loadingSequence[1].depends = << >>
  /\ \A i \in DOMAIN loadingSequence : Range(loadingSequence[i].depends) \subseteq Names
  /\ \A i \in DOMAIN loadingSequence : loadingSequence[i].name \notin Required(i)
  /\ (run = 1 /\ errors = << >> /\ ~ENABLED <<Next>>_vars)
       => \A w \in Waits : wait[1][w] = "resolved"

\* C15 witness: with every load successful all eleven waits have resolved and
\* loadUniver has gone on to initializeUniver.
C15_Witness ==
  /\ runPc[1] = "init"
  /\ errors = << >>
  /\ Cardinality(Waits) = 11
  /\ \A w \in Waits : wait[1][w] = "resolved"

\* C16: when nothing more can happen in a run, no waitForResourceLoad poll
\* loop is still rescheduling itself.
C16_EveryWaitSettles ==
  (run = 1 /\ ~ENABLED <<Next>>_vars)
    => \A w \in Waits : wait[1][w] # "polling"

\* C17: the error list holds one record for each resource in ERROR and none
\* for any other, hasErrors tells whether some resource is in ERROR, and the
\* list changes only by an append or by the reset of a new invocation.
C17_ErrorsMatchStates ==
  /\ [](\A k \in Names :
          Cardinality({i \in DOMAIN errors : errors[i].resource = k})
            = IF loadingStates[k] = ERROR THEN 1 ELSE 0)
  /\ [](loadingStatus.hasErrors <=> \E k \in StateKeys : loadingStates[k] = ERROR)
  /\ [][\/ errors' = errors
        \/ Len(errors') = Len(errors) + 1 /\ SubSeq(errors', 1, Len(errors)) = errors
        \/ run' # run /\ errors' = << >>]_vars

\* C17 witness: a second invocation has recorded a failure of its own after
\* the first invocation's records were cleared.
C17_Witness ==
  /\ run = 2
  /\ Len(errors) = 2
  /\ loadingStatus.hasErrors
  /\ cause[1].kind = "load"
  /\ cause[2].kind = "load"

\* C18: once a later invocation has started, no step of a task or poll loop of
\* an earlier invocation changes a resource state, appends to the error list
\* or starts a script load.
C18_NewRunIsIsolated ==
  [][\A g \in Runs :
       (g < run /\ run' = run /\ (task'[g] # task[g] \/ wait'[g] # wait[g]))
         => /\ loadingStates' = loadingStates
            /\ errors' = errors
            /\ \A r \in Remaining :
                 task'[g][r] = "loading" => task[g][r] = "loading"]_vars

\* C19: the status of the loadingStatus getter agrees with the outcome of the
\* run: isComplete and hasErrors are never both true, isComplete is true only
\* when every resource is Loaded, and after the run has ended Failed the status
\* is not a complete, error-free load.
C19_StatusMatchesOutcome ==
  /\ ~(loadingStatus.isComplete /\ loadingStatus.hasErrors)
  /\ loadingStatus.isComplete => \A k \in StateKeys : loadingStates[k] = LOADED
  /\ (run >= 1 /\ runPc[run] = "failed")
       => ~(loadingStatus.isComplete /\ ~loadingStatus.hasErrors)

====
